---- MODULE Spec2Model ----
(***************************************************************************)
(* Verification model of                                                   *)
(*   - arrow/compute/kernels/util-internal.cc: InvokeBinaryArrayKernel     *)
(*     (list form and single-datum form), WrapArraysLike, WrapDatumsLike;  *)
(*   - parquet/types.h: EncryptionProperties::CalculateCipherSize /        *)
(*     CalculatePlainSize, Int96SetNanoSeconds / Int96GetNanoSeconds.      *)
(* Fixed-width C++ integers are byte sequences (little endian, base 256),  *)
(* so that uint32_t / int64_t arithmetic keeps its width.                  *)
(***************************************************************************)
EXTENDS Integers, Sequences, FiniteSets, TLC

\* Largest total logical length of a datum of the model.
MaxLen == 5
\* Largest number of chunks of a chunked array of the model.
MaxChunks == 3
\* Lengths passed to the size functions lie within LenSpread of 0 or of 2^32.
LenSpread == 34
\* Nanosecond values lie within NsSpread of 0, of a day, of the int64 limits.
NsSpread == 2
\* Julian days stored in value[2] lie within DaySpread of the Unix epoch day.
DaySpread == 1

VARIABLES
    \* ---- InvokeBinaryArrayKernel -------------------------------------
    form,               \* "list": outputs overload, "datum": Datum* overload
    left, right,        \* the two input datums
    pc,                 \* position of the call
    left_length, right_length,
    left_arrays, right_arrays,
    left_chunk_idx, left_start_idx,
    right_chunk_idx, right_start_idx,
    elements_compared,
    outputs,            \* std::vector<Datum>* outputs / result
    calls,              \* history: operands of every kernel->Call, in order
    status,             \* Status returned by the list form
    ret,                \* outcome of the single-datum form
    output,             \* *output of the single-datum form
    \* ---- EncryptionProperties ----------------------------------------
    algorithm_,         \* the member algorithm_
    c_op,               \* which size function has been called
    c_arg,              \* the length passed by the caller (uint32_t)
    c_meta,             \* is_metadata
    c_res,              \* the uint32_t returned
    c_outcome,          \* "value": a length was returned, "error": rejected
    \* ---- Int96 -------------------------------------------------------
    i96,                \* the 12 bytes of an Int96: value[0], value[1], value[2]
    t_pc,               \* "stored", "set", "got" (after a set), "read"
    t_v,                \* the int64_t passed to Int96SetNanoSeconds
    t_out,              \* what Int96GetNanoSeconds returned
    \* ---- WrapArraysLike / WrapDatumsLike called on their own ----------
    w_value,            \* the reference datum
    w_list,             \* the list of arrays (as datums for WrapDatumsLike)
    w_fn,               \* which of the two functions was called
    w_dchecks,          \* whether the build compiles the DCHECKs in
    w_ret,              \* "OK": a datum was returned, "abort", "crash"
    w_datum             \* the datum returned

kvars == <<form, left, right, pc, left_length, right_length, left_arrays,
           right_arrays, left_chunk_idx, left_start_idx, right_chunk_idx,
           right_start_idx, elements_compared, outputs, calls, status, ret,
           output>>

cvars == <<algorithm_, c_op, c_arg, c_meta, c_res, c_outcome>>

tvars == <<i96, t_pc, t_v, t_out>>

wvars == <<w_value, w_list, w_fn, w_dchecks, w_ret, w_datum>>

vars == <<kvars, cvars, tvars, wvars>>

----------------------------------------------------------------------------
\* Generic helpers

Min(a, b) == IF a < b THEN a ELSE b

RECURSIVE SumSeq(_)
SumSeq(s) == IF s = <<>> THEN 0 ELSE Head(s) + SumSeq(Tail(s))

RECURSIVE Flatten(_)
Flatten(ss) == IF ss = <<>> THEN <<>> ELSE Head(ss) \o Flatten(Tail(ss))

\* Lengths of the arrays of a list.
Lengths(arrays) == [j \in 1..Len(arrays) |-> Len(arrays[j])]

----------------------------------------------------------------------------
\* Fixed-width integers: little-endian sequences of bytes.  All arithmetic
\* is modulo 256^width, as for unsigned C++ integers and for two's complement.

\* The w bytes of the natural number n.
RECURSIVE NatBytes(_, _)
NatBytes(n, w) ==
    IF w = 0 THEN <<>> ELSE <<n % 256>> \o NatBytes(n \div 256, w - 1)

RECURSIVE AddCarry(_, _, _)
AddCarry(a, b, c) ==
    IF a = <<>> THEN <<>>
    ELSE LET sum == Head(a) + Head(b) + c
         IN <<sum % 256>> \o AddCarry(Tail(a), Tail(b), sum \div 256)

AddBytes(a, b) == AddCarry(a, b, 0)

NotBytes(a) == [i \in 1..Len(a) |-> 255 - a[i]]

NegBytes(a) == AddBytes(NotBytes(a), NatBytes(1, Len(a)))

SubBytes(a, b) == AddBytes(a, NegBytes(b))

RECURSIVE MulByte(_, _, _)
MulByte(a, d, c) ==
    IF a = <<>> THEN <<>>
    ELSE LET prod == Head(a) * d + c
         IN <<prod % 256>> \o MulByte(Tail(a), d, prod \div 256)

RECURSIVE MulBytes(_, _)
MulBytes(a, b) ==
    IF b = <<>> THEN NatBytes(0, Len(a))
    ELSE AddBytes(MulByte(a, Head(b), 0),
                  <<0>> \o SubSeq(MulBytes(a, Tail(b)), 1, Len(a) - 1))

\* Unsigned comparison.
RECURSIVE LessBytes(_, _)
LessBytes(a, b) ==
    IF a = <<>> THEN FALSE
    ELSE LET n == Len(a)
         IN \/ a[n] < b[n]
            \/ a[n] = b[n] /\ LessBytes(SubSeq(a, 1, n - 1), SubSeq(b, 1, n - 1))

ZeroExtend(a, w) == a \o NatBytes(0, w - Len(a))

IsNegative(a) == a[Len(a)] >= 128

SignExtend(a, w) ==
    a \o [i \in 1..(w - Len(a)) |-> IF IsNegative(a) THEN 255 ELSE 0]

Truncate(a, w) == SubSeq(a, 1, w)

\* uint32_t and int64_t values of small naturals.
U32(n) == NatBytes(n, 4)
I64(n) == NatBytes(n, 8)

----------------------------------------------------------------------------
\* Arrays and datums.  An array is the sequence of its elements; a datum is
\* a tagged value: one array, a chunked array (a list of arrays), or a datum
\* of another kind ("NONE").

ArrayDatum(a) == [kind |-> "ARRAY", chunks |-> <<a>>]
ChunkedDatum(arrays) == [kind |-> "CHUNKED_ARRAY", chunks |-> arrays]
NoneDatum == [kind |-> "NONE", chunks |-> <<>>]

\* Array::length()
Length(a) == Len(a)

\* Array::Slice(offset, length): the view of `length` elements from `offset`,
\* cut at the end of the array.
Slice(a, offset, length) == SubSeq(a, offset + 1, Min(offset + length, Len(a)))

\* ChunkedArray::length(): the sum of the chunks' lengths.
ChunkedLength(arrays) == SumSeq(Lengths(arrays))

\* The binary kernel: an elementwise function of two arrays of equal length.
\* Each output element records the two input elements it was computed from.
KernelCall(left_op, right_op) ==
    [i \in 1..Min(Len(left_op), Len(right_op)) |-> <<left_op[i], right_op[i]>>]

----------------------------------------------------------------------------
\* Inputs.  The element at logical position i of the left data is i, of the
\* right data -i, so that every element is identified by side and position.

LeftElem(i) == i
RightElem(i) == 0 - i
Elem(side, i) == IF side = "left" THEN LeftElem(i) ELSE RightElem(i)

ChunkLengthLists ==
    { ls \in UNION { [1..k -> 0..MaxLen] : k \in 0..MaxChunks } :
        SumSeq(ls) <= MaxLen }

\* The chunks of lengths `lens` over the logical data of one side.
MakeChunks(lens, side) ==
    [j \in 1..Len(lens) |->
        [i \in 1..lens[j] |-> Elem(side, SumSeq(SubSeq(lens, 1, j - 1)) + i)]]

LeftDatums ==
    { ArrayDatum([i \in 1..n |-> LeftElem(i)]) : n \in 0..MaxLen }
    \cup { ChunkedDatum(MakeChunks(ls, "left")) : ls \in ChunkLengthLists }
    \cup { NoneDatum }

RightDatums ==
    { ArrayDatum([i \in 1..n |-> RightElem(i)]) : n \in 0..MaxLen }
    \cup { ChunkedDatum(MakeChunks(ls, "right")) : ls \in ChunkLengthLists }
    \cup { NoneDatum }

----------------------------------------------------------------------------
\* InvokeBinaryArrayKernel, list form

\* Lines 62-70 / 74-82: is the datum array-like?
IsArrayLike(d) == d.kind = "ARRAY" \/ d.kind = "CHUNKED_ARRAY"

\* Lines 63 / 66: total length of an array-like datum.
DatumLength(d) ==
    IF d.kind = "ARRAY" THEN Length(d.chunks[1]) ELSE ChunkedLength(d.chunks)

\* Lines 64 / 67: the list of arrays of an array-like datum.
DatumArrays(d) == d.chunks

\* Mutation: only a shorter right operand is rejected.
LengthMismatch_OneSided(rl, ll) == rl < ll

\* Line 84: the length check.
LengthMismatch(rl, ll) == rl # ll

\* Mutation: the walk stops one element early.
LoopCondition_OffByOne(ec, ll) == ec + 1 < ll

\* Line 95: the loop condition.
LoopCondition(ec, ll) == ec < ll

\* Mutation: the remaining length of the right chunk is ignored.
CommonLength_LeftOnly(la, ls, ra, rs) == Length(la) - ls

\* Lines 98-99: the length both current chunks can supply.
CommonLength(la, ls, ra, rs) == Min(Length(la) - ls, Length(ra) - rs)

\* Mutation: the slice starts at the head of the chunk, not at the cursor.
SliceOf_FromChunkStart(array, start_idx, common_length) ==
    Slice(array, 0, common_length)

\* Lines 101 / 102: the operand taken from the current chunk of one side.
SliceOf(array, start_idx, common_length) ==
    Slice(array, start_idx, common_length)

\* Lines 110 / 117: has the slice exhausted the current chunk?
ChunkExhausted(start_idx, common_length, array) ==
    start_idx + common_length = Length(array)

\* Lines 110-115 / 117-122: the cursor of one side after a slice.
NextChunkIdx(chunk_idx, start_idx, common_length, array) ==
    IF ChunkExhausted(start_idx, common_length, array)
    THEN chunk_idx + 1 ELSE chunk_idx

\* Mutation: the intra-chunk offset is not reset when the chunk is exhausted.
NextStartIdx_NoReset(start_idx, common_length, array) ==
    start_idx + common_length

NextStartIdx(start_idx, common_length, array) ==
    IF ChunkExhausted(start_idx, common_length, array)
    THEN 0 ELSE start_idx + common_length

KInit ==
    /\ form \in {"list", "datum"}
    /\ left \in LeftDatums
    /\ right \in RightDatums
    /\ pc = "call"
    /\ left_length = 0 /\ right_length = 0
    /\ left_arrays = <<>> /\ right_arrays = <<>>
    /\ left_chunk_idx = 0 /\ left_start_idx = 0
    /\ right_chunk_idx = 0 /\ right_start_idx = 0
    /\ elements_compared = 0
    /\ outputs = <<>>
    /\ calls = <<>>
    /\ status = "none"
    /\ ret = "none"
    /\ output = NoneDatum

\* Lines 60-82: a datum that is not array-like ends the call.
RejectNotArrayLike ==
    /\ pc = "call"
    /\ ~IsArrayLike(left) \/ ~IsArrayLike(right)
    /\ status' = "Invalid"
    /\ pc' = "returned"
    /\ UNCHANGED <<form, left, right, left_length, right_length, left_arrays,
                   right_arrays, left_chunk_idx, left_start_idx,
                   right_chunk_idx, right_start_idx, elements_compared,
                   outputs, calls, ret, output>>
    /\ UNCHANGED <<cvars, tvars, wvars>>

\* Lines 60-86: both are array-like, the total lengths differ.
RejectLengthMismatch ==
    /\ pc = "call"
    /\ IsArrayLike(left) /\ IsArrayLike(right)
    /\ LengthMismatch(DatumLength(right), DatumLength(left))
    /\ left_length' = DatumLength(left)
    /\ left_arrays' = DatumArrays(left)
    /\ right_length' = DatumLength(right)
    /\ right_arrays' = DatumArrays(right)
    /\ status' = "Invalid"
    /\ pc' = "returned"
    /\ UNCHANGED <<form, left, right, left_chunk_idx, left_start_idx,
                   right_chunk_idx, right_start_idx, elements_compared,
                   outputs, calls, ret, output>>
    /\ UNCHANGED <<cvars, tvars, wvars>>

\* Lines 60-94: the inputs are accepted and the walk starts.
StartWalk ==
    /\ pc = "call"
    /\ IsArrayLike(left) /\ IsArrayLike(right)
    /\ ~LengthMismatch(DatumLength(right), DatumLength(left))
    /\ left_length' = DatumLength(left)
    /\ left_arrays' = DatumArrays(left)
    /\ right_length' = DatumLength(right)
    /\ right_arrays' = DatumArrays(right)
    /\ left_chunk_idx' = 0 /\ left_start_idx' = 0
    /\ right_chunk_idx' = 0 /\ right_start_idx' = 0
    /\ elements_compared' = 0
    /\ pc' = "loop"
    /\ UNCHANGED <<form, left, right, outputs, calls, status, ret, output>>
    /\ UNCHANGED <<cvars, tvars, wvars>>

\* Lines 95-123: one iteration of the loop, the kernel succeeds.
\* Chunk indexes are 0-based as in the source; sequences are 1-based.  The
\* two range guards keep the vector reads of lines 96-97 defined.
WalkStep ==
    /\ pc = "loop"
    /\ LoopCondition(elements_compared, left_length)
    /\ left_chunk_idx < Len(left_arrays)
    /\ right_chunk_idx < Len(right_arrays)
    /\ LET left_array == left_arrays[left_chunk_idx + 1]
           right_array == right_arrays[right_chunk_idx + 1]
           common_length == CommonLength(left_array, left_start_idx,
                                         right_array, right_start_idx)
           left_op == SliceOf(left_array, left_start_idx, common_length)
           right_op == SliceOf(right_array, right_start_idx, common_length)
       IN /\ calls' = Append(calls, [left_op |-> left_op, right_op |-> right_op])
          /\ outputs' = Append(outputs, ArrayDatum(KernelCall(left_op, right_op)))
          /\ elements_compared' = elements_compared + common_length
          /\ left_chunk_idx' = NextChunkIdx(left_chunk_idx, left_start_idx,
                                            common_length, left_array)
          /\ left_start_idx' = NextStartIdx(left_start_idx, common_length,
                                            left_array)
          /\ right_chunk_idx' = NextChunkIdx(right_chunk_idx, right_start_idx,
                                             common_length, right_array)
          /\ right_start_idx' = NextStartIdx(right_start_idx, common_length,
                                             right_array)
    /\ UNCHANGED <<form, left, right, pc, left_length, right_length,
                   left_arrays, right_arrays, status, ret, output>>
    /\ UNCHANGED <<cvars, tvars, wvars>>

\* Lines 96-104: the kernel fails; RETURN_NOT_OK returns its status.
WalkStepKernelFails ==
    /\ pc = "loop"
    /\ LoopCondition(elements_compared, left_length)
    /\ left_chunk_idx < Len(left_arrays)
    /\ right_chunk_idx < Len(right_arrays)
    /\ LET left_array == left_arrays[left_chunk_idx + 1]
           right_array == right_arrays[right_chunk_idx + 1]
           common_length == CommonLength(left_array, left_start_idx,
                                         right_array, right_start_idx)
           left_op == SliceOf(left_array, left_start_idx, common_length)
           right_op == SliceOf(right_array, right_start_idx, common_length)
       IN calls' = Append(calls, [left_op |-> left_op, right_op |-> right_op])
    /\ status' = "KernelError"
    /\ pc' = "returned"
    /\ UNCHANGED <<form, left, right, left_length, right_length, left_arrays,
                   right_arrays, left_chunk_idx, left_start_idx,
                   right_chunk_idx, right_start_idx, elements_compared,
                   outputs, ret, output>>
    /\ UNCHANGED <<cvars, tvars, wvars>>

\* Lines 95, 125: the loop condition fails and the list form returns OK.
WalkDone ==
    /\ pc = "loop"
    /\ ~LoopCondition(elements_compared, left_length)
    /\ status' = "OK"
    /\ pc' = "returned"
    /\ UNCHANGED <<form, left, right, left_length, right_length, left_arrays,
                   right_arrays, left_chunk_idx, left_start_idx,
                   right_chunk_idx, right_start_idx, elements_compared,
                   outputs, calls, ret, output>>
    /\ UNCHANGED <<cvars, tvars, wvars>>

----------------------------------------------------------------------------
\* WrapDatumsLike and the single-datum form of InvokeBinaryArrayKernel

\* What a read past the end of a vector can produce besides a crash.
GarbageDatums == { NoneDatum, ChunkedDatum(<<>>), ArrayDatum(<<>>) }

WrapOutcome(r, d) == [ret |-> r, datum |-> d]

\* WrapDatumsLike(value, datums): the set of its possible outcomes.  dchecks
\* tells whether the build compiles the DCHECKs in (debug) or out (release).
\* With the check compiled out, datums[0] of an empty vector is undefined.
WrapDatumsLike(value, datums, dchecks) ==
    IF value.kind = "ARRAY" THEN
        IF dchecks /\ Len(datums) # 1
        THEN { WrapOutcome("abort", NoneDatum) }
        ELSE IF Len(datums) >= 1
        THEN { WrapOutcome("OK", ArrayDatum(datums[1].chunks[1])) }
        ELSE { WrapOutcome("crash", NoneDatum) }
             \cup { WrapOutcome("OK", g) : g \in GarbageDatums }
    ELSE IF value.kind = "CHUNKED_ARRAY" THEN
        IF dchecks /\ \E k \in 1..Len(datums) : datums[k].kind # "ARRAY"
        THEN { WrapOutcome("abort", NoneDatum) }
        ELSE { WrapOutcome("OK",
                 ChunkedDatum([k \in 1..Len(datums) |-> datums[k].chunks[1]])) }
    ELSE
        IF dchecks
        THEN { WrapOutcome("abort", NoneDatum) }
        ELSE { WrapOutcome("OK", NoneDatum) }

\* Lines 130-131: the list form failed; RETURN_NOT_OK returns its status.
DatumFormFails ==
    /\ pc = "returned"
    /\ form = "datum"
    /\ status # "OK"
    /\ ret' = status
    /\ pc' = "done"
    /\ UNCHANGED <<form, left, right, left_length, right_length, left_arrays,
                   right_arrays, left_chunk_idx, left_start_idx,
                   right_chunk_idx, right_start_idx, elements_compared,
                   outputs, calls, status, output>>
    /\ UNCHANGED <<cvars, tvars, wvars>>

\* Lines 132-133: the result list is wrapped like left.
DatumFormWraps ==
    /\ pc = "returned"
    /\ form = "datum"
    /\ status = "OK"
    /\ \E dchecks \in BOOLEAN :
         \E o \in WrapDatumsLike(left, outputs, dchecks) :
            /\ ret' = o.ret
            /\ output' = o.datum
    /\ pc' = "done"
    /\ UNCHANGED <<form, left, right, left_length, right_length, left_arrays,
                   right_arrays, left_chunk_idx, left_start_idx,
                   right_chunk_idx, right_start_idx, elements_compared,
                   outputs, calls, status>>
    /\ UNCHANGED <<cvars, tvars, wvars>>

KNext ==
    \/ RejectNotArrayLike
    \/ RejectLengthMismatch
    \/ StartWalk
    \/ WalkStep
    \/ WalkStepKernelFails
    \/ WalkDone
    \/ DatumFormFails
    \/ DatumFormWraps

\* The other components while InvokeBinaryArrayKernel runs.
CIdle ==
    /\ algorithm_ = 0 /\ c_op = "idle" /\ c_arg = U32(0) /\ c_meta = FALSE
    /\ c_res = U32(0) /\ c_outcome = "none"

TIdle ==
    /\ i96 = NatBytes(0, 12) /\ t_pc = "idle" /\ t_v = I64(0)
    /\ t_out = [ub |-> FALSE, val |-> I64(0)]

KIdle ==
    /\ form = "list" /\ left = NoneDatum /\ right = NoneDatum /\ pc = "idle"
    /\ left_length = 0 /\ right_length = 0
    /\ left_arrays = <<>> /\ right_arrays = <<>>
    /\ left_chunk_idx = 0 /\ left_start_idx = 0
    /\ right_chunk_idx = 0 /\ right_start_idx = 0
    /\ elements_compared = 0 /\ outputs = <<>> /\ calls = <<>>
    /\ status = "none" /\ ret = "none" /\ output = NoneDatum

WIdle ==
    /\ w_value = NoneDatum /\ w_list = <<>> /\ w_fn = "none"
    /\ w_dchecks = FALSE /\ w_ret = "none" /\ w_datum = NoneDatum

Init == KInit /\ CIdle /\ TIdle /\ WIdle
Next == KNext
Spec == Init /\ [][Next]_vars

----------------------------------------------------------------------------
\* Properties of InvokeBinaryArrayKernel

\* The list form has returned (on its own or inside the single-datum form).
ListReturned == pc \in {"returned", "done"}

\* Both inputs are array-like and of the same total length.
ValidPair ==
    /\ IsArrayLike(left) /\ IsArrayLike(right)
    /\ DatumLength(left) = DatumLength(right)

OutputLengths == [k \in 1..Len(outputs) |-> Len(outputs[k].chunks[1])]

\* The in-order concatenation of the appended outputs.
ConcatOutputs == Flatten([k \in 1..Len(outputs) |-> outputs[k].chunks[1]])

LogicalLeft == Flatten(left.chunks)
LogicalRight == Flatten(right.chunks)

ChunkLens(d) == Lengths(d.chunks)

\* C1: for a valid pair of equal total length and a kernel that succeeds,
\* the list form returns OK and the lengths of the appended outputs sum to
\* the common total length; while it runs they sum to elements_compared.
C1_LengthInvariant ==
    /\ (pc = "loop" =>
          /\ SumSeq(OutputLengths) = elements_compared
          /\ elements_compared <= left_length)
    /\ (ListReturned /\ ValidPair /\ status # "KernelError" =>
          /\ status = "OK"
          /\ SumSeq(OutputLengths) = DatumLength(left))

C1_Witness ==
    /\ ListReturned /\ status = "OK"
    /\ left.kind = "CHUNKED_ARRAY" /\ ChunkLens(left) = <<2, 1>>
    /\ right.kind = "CHUNKED_ARRAY" /\ ChunkLens(right) = <<1, 2>>
    /\ OutputLengths = <<1, 1, 1>>

\* C2 (as claimed): the datum the single-datum form returns is a chunked
\* array iff left is a chunked array, and a single array iff left is a
\* single array.
C2_ShapeMirrorsLeft ==
    pc = "done" /\ ret = "OK" =>
        /\ (output.kind = "CHUNKED_ARRAY" <=> left.kind = "CHUNKED_ARRAY")
        /\ (output.kind = "ARRAY" <=> left.kind = "ARRAY")

\* C3: the concatenation of the appended outputs is the kernel applied to
\* the two unchunked arrays, whatever the chunking of either side.
C3_ChunkingInvariance ==
    ListReturned /\ status = "OK" =>
        ConcatOutputs = KernelCall(LogicalLeft, LogicalRight)

C3_Witness ==
    /\ ListReturned /\ status = "OK"
    /\ left.kind = "CHUNKED_ARRAY" /\ ChunkLens(left) = <<3, 0, 2>>
    /\ right.kind = "CHUNKED_ARRAY" /\ ChunkLens(right) = <<1, 4>>
    /\ Len(outputs) = 4
    /\ ConcatOutputs = <<<<1, -1>>, <<2, -2>>, <<3, -3>>, <<4, -4>>, <<5, -5>>>>

\* C4: two array-like datums of different total lengths: the call returns
\* Invalid, the kernel is never invoked and nothing is appended.
C4_MismatchRejected ==
    IsArrayLike(left) /\ IsArrayLike(right)
    /\ DatumLength(left) # DatumLength(right) =>
        /\ calls = <<>>
        /\ outputs = <<>>
        /\ pc # "loop"
        /\ (ListReturned => status = "Invalid")
        /\ (pc = "done" => ret = "Invalid" /\ output = NoneDatum)

C4_Witness ==
    /\ ListReturned /\ status = "Invalid"
    /\ left.kind = "CHUNKED_ARRAY" /\ ChunkLens(left) = <<2, 3>>
    /\ right.kind = "ARRAY" /\ DatumLength(right) = 4
    /\ calls = <<>>

\* C5 (as claimed): left a single array, right chunked with more than one
\* chunk: the single-datum form calls the kernel once per right chunk and
\* returns one array holding all results in order.
C5_SingleLeftConcatenates ==
    /\ pc = "done" /\ status = "OK"
    /\ left.kind = "ARRAY" /\ right.kind = "CHUNKED_ARRAY"
    /\ Len(right.chunks) > 1
    /\ \A j \in 1..Len(right.chunks) : Len(right.chunks[j]) > 0
    => /\ Len(calls) = Len(right.chunks)
       /\ \A k \in 1..Len(calls) : calls[k].right_op = right.chunks[k]
       /\ ret = "OK"
       /\ output = ArrayDatum(KernelCall(LogicalLeft, LogicalRight))

\* The distinct positive cumulative chunk-length sums of a list of lengths.
CumSums(lens) == { SumSeq(SubSeq(lens, 1, k)) : k \in 1..Len(lens) } \ {0}

\* The alignment boundaries of the two inputs together.
Boundaries == CumSums(ChunkLens(left)) \cup CumSums(ChunkLens(right))

\* The k-th boundary in increasing order; boundary 0 is the start.
Boundary(k) ==
    IF k = 0 THEN 0
    ELSE CHOOSE b \in Boundaries : Cardinality({x \in Boundaries : x <= b}) = k

\* The elements of one side in the logical range (lo, hi].
LogicalRange(side, lo, hi) == [i \in 1..(hi - lo) |-> Elem(side, lo + i)]

\* The list of calls is exactly one call per boundary, on the slices between
\* consecutive boundaries.
OneCallPerBoundary(cs) ==
    /\ Len(cs) = Cardinality(Boundaries)
    /\ \A k \in 1..Len(cs) :
         /\ cs[k].left_op = LogicalRange("left", Boundary(k - 1), Boundary(k))
         /\ cs[k].right_op = LogicalRange("right", Boundary(k - 1), Boundary(k))

\* The outputs are the results of the calls, in call order.
OutputsInCallOrder ==
    /\ Len(outputs) = Len(calls)
    /\ \A k \in 1..Len(calls) :
         outputs[k] = ArrayDatum(KernelCall(calls[k].left_op, calls[k].right_op))

IsNonEmptyCall(c) == Len(c.left_op) > 0 \/ Len(c.right_op) > 0

NoEmptyChunk ==
    /\ \A j \in 1..Len(left.chunks) : Len(left.chunks[j]) > 0
    /\ \A j \in 1..Len(right.chunks) : Len(right.chunks[j]) > 0

\* C6 (as claimed): exactly one kernel call and one output per distinct
\* alignment boundary, the k-th on the range between boundaries k-1 and k.
C6_OneCallPerBoundary ==
    ListReturned /\ status = "OK" =>
        OneCallPerBoundary(calls) /\ OutputsInCallOrder

\* C6 (amended): the calls on non-empty slices are exactly one per distinct
\* alignment boundary, the k-th on the range between boundaries k-1 and k;
\* every other call is on two empty slices; outputs are in call order; and
\* when no chunk has length zero there is no call on empty slices.
C6_OneNonEmptyCallPerBoundary ==
    ListReturned /\ status = "OK" =>
        /\ OneCallPerBoundary(SelectSeq(calls, IsNonEmptyCall))
        /\ OutputsInCallOrder
        /\ (NoEmptyChunk => OneCallPerBoundary(calls))

C6_Witness ==
    /\ ListReturned /\ status = "OK"
    /\ left.kind = "CHUNKED_ARRAY" /\ ChunkLens(left) = <<2, 3>>
    /\ right.kind = "ARRAY" /\ DatumLength(right) = 5
    /\ Len(calls) = 2
    /\ calls[1].right_op = <<-1, -2>>
    /\ calls[2].right_op = <<-3, -4, -5>>
    /\ OutputLengths = <<2, 3>>

----------------------------------------------------------------------------
\* EncryptionProperties::CalculateCipherSize / CalculatePlainSize

\* struct Encryption
AES_GCM_V1 == 0
AES_GCM_CTR_V1 == 1

\* Values algorithm_ can hold: the two enumerators, and any other value (the
\* default constructor leaves the member unset).
AlgorithmValues == {AES_GCM_V1, AES_GCM_CTR_V1, 2}

\* CalculateCipherSize: uint32_t arithmetic, plain_len + 28 + 4 etc.
CalculateCipherSize(algorithm, plain_len, is_metadata) ==
    IF is_metadata \/ algorithm = AES_GCM_V1
    THEN AddBytes(AddBytes(plain_len, U32(28)), U32(4))
    ELSE IF algorithm = AES_GCM_CTR_V1
    THEN AddBytes(AddBytes(plain_len, U32(16)), U32(4))
    ELSE plain_len

\* Mutation: a sign slip in the first branch, cipher_len - 28 + 4.
CalculatePlainSize_SignSlip(algorithm, cipher_len, is_metadata) ==
    IF is_metadata \/ algorithm = AES_GCM_V1
    THEN AddBytes(SubBytes(cipher_len, U32(28)), U32(4))
    ELSE IF algorithm = AES_GCM_CTR_V1
    THEN SubBytes(SubBytes(cipher_len, U32(16)), U32(4))
    ELSE cipher_len

\* CalculatePlainSize: uint32_t arithmetic, cipher_len - 28 - 4 etc.
CalculatePlainSize(algorithm, cipher_len, is_metadata) ==
    IF is_metadata \/ algorithm = AES_GCM_V1
    THEN SubBytes(SubBytes(cipher_len, U32(28)), U32(4))
    ELSE IF algorithm = AES_GCM_CTR_V1
    THEN SubBytes(SubBytes(cipher_len, U32(16)), U32(4))
    ELSE cipher_len

\* The uint32_t lengths of the model: near 0 and near 2^32.
Uint32Lengths ==
    { U32(n) : n \in 0..LenSpread }
    \cup { SubBytes(U32(0), U32(n)) : n \in 1..LenSpread }

CInit ==
    /\ algorithm_ \in AlgorithmValues
    /\ c_op = "none"
    /\ c_arg = U32(0)
    /\ c_meta = FALSE
    /\ c_res = U32(0)
    /\ c_outcome = "none"

\* A call of CalculateCipherSize(plain_len, is_metadata).
CallCalculateCipherSize ==
    /\ c_op = "none"
    /\ \E plain_len \in Uint32Lengths, is_metadata \in BOOLEAN :
         /\ c_arg' = plain_len
         /\ c_meta' = is_metadata
         /\ c_res' = CalculateCipherSize(algorithm_, plain_len, is_metadata)
    /\ c_op' = "cipher"
    /\ c_outcome' = "value"
    /\ UNCHANGED algorithm_
    /\ UNCHANGED <<kvars, tvars, wvars>>

\* A call of CalculatePlainSize(cipher_len, is_metadata).
CallCalculatePlainSize ==
    /\ c_op = "none"
    /\ \E cipher_len \in Uint32Lengths, is_metadata \in BOOLEAN :
         /\ c_arg' = cipher_len
         /\ c_meta' = is_metadata
         /\ c_res' = CalculatePlainSize(algorithm_, cipher_len, is_metadata)
    /\ c_op' = "plain"
    /\ c_outcome' = "value"
    /\ UNCHANGED algorithm_
    /\ UNCHANGED <<kvars, tvars, wvars>>

\* CalculatePlainSize applied to what CalculateCipherSize just returned,
\* with the same is_metadata; c_arg keeps the original plain_len.
CallPlainSizeOfCipherSize ==
    /\ c_op = "cipher"
    /\ c_res' = CalculatePlainSize(algorithm_, c_res, c_meta)
    /\ c_op' = "roundtrip"
    /\ c_outcome' = "value"
    /\ UNCHANGED <<algorithm_, c_arg, c_meta>>
    /\ UNCHANGED <<kvars, tvars, wvars>>

CNext ==
    \/ CallCalculateCipherSize
    \/ CallCalculatePlainSize
    \/ CallPlainSizeOfCipherSize

InitCipher == CInit /\ KIdle /\ TIdle /\ WIdle
NextCipher == CNext
SpecCipher == InitCipher /\ [][NextCipher]_vars

\* The fixed overhead of the branch a call selects.
Overhead(algorithm, is_metadata) ==
    IF is_metadata \/ algorithm = AES_GCM_V1 THEN 32
    ELSE IF algorithm = AES_GCM_CTR_V1 THEN 20
    ELSE 0

\* C7: CalculatePlainSize(CalculateCipherSize(plain_len, m), m) = plain_len
\* for every plain_len, both algorithms and both values of is_metadata.
C7_CipherRoundTrip ==
    c_op = "roundtrip" /\ algorithm_ \in {AES_GCM_V1, AES_GCM_CTR_V1} =>
        c_res = c_arg

\* A round trip of plain_len = 2^32 - 1, where the cipher size wraps.
C7_Witness ==
    /\ c_op = "roundtrip"
    /\ algorithm_ = AES_GCM_CTR_V1 /\ ~c_meta
    /\ c_arg = <<255, 255, 255, 255>>
    /\ c_res = c_arg

\* C8 (as claimed): CalculateCipherSize returns the integer plain_len plus
\* the overhead of the selected branch (compared in 5 bytes, where the sum
\* of a uint32_t and the overhead is exact).
C8_CipherSizeIsExactSum ==
    c_op = "cipher" =>
        ZeroExtend(c_res, 5) =
            AddBytes(ZeroExtend(c_arg, 5),
                     NatBytes(Overhead(algorithm_, c_meta), 5))

\* C9 (as claimed): a cipher_len below the overhead of the selected branch
\* is rejected with an error, and a returned value is at most cipher_len.
C9_ShortCipherRejected ==
    c_op = "plain" =>
        /\ (LessBytes(c_arg, U32(Overhead(algorithm_, c_meta))) =>
              c_outcome = "error")
        /\ (c_outcome = "value" => ~LessBytes(c_arg, c_res))

----------------------------------------------------------------------------
\* Int96SetNanoSeconds / Int96GetNanoSeconds

\* Julian day at unix epoch, and the lengths of a day (int64_t constants).
kJulianToUnixEpochDays == I64(2440588)
kSecondsPerDay == I64(60 * 60 * 24)
kMillisecondsPerDay == MulBytes(kSecondsPerDay, I64(1000))
kMicrosecondsPerDay == MulBytes(kMillisecondsPerDay, I64(1000))
kNanosecondsPerDay == MulBytes(kMicrosecondsPerDay, I64(1000))

\* struct Int96 { uint32_t value[3]; }: 12 bytes; value[k] is a 4-byte word.
Int96Value(i, k) == SubSeq(i, 4 * k + 1, 4 * k + 4)

\* Int96SetNanoSeconds: memcpy of the 8 bytes of nanoseconds over value[0]
\* and value[1]; value[2] is left as it was.
Int96SetNanoSeconds(i, nanoseconds) == nanoseconds \o SubSeq(i, 9, 12)

\* Does a 12-byte two's complement value fit an int64_t?
FitsInt64(x) == SignExtend(Truncate(x, 8), 12) = x

\* Int96GetNanoSeconds: the set of values the call can return.
\* days_since_epoch = value[2] - kJulianToUnixEpochDays (uint32_t widened to
\* int64_t); the 8 bytes of value[0..1] are read back as an int64_t; the
\* result is days_since_epoch * kNanosecondsPerDay + nanoseconds in int64_t.
\* Signed overflow of the product or of the sum is undefined: the call can
\* then return anything (here: the wrapped value, the stored nanoseconds, 0).
Int96GetNanoSeconds(i) ==
    LET days_since_epoch ==
            SubBytes(ZeroExtend(Int96Value(i, 2), 8), kJulianToUnixEpochDays)
        nanoseconds == SubSeq(i, 1, 8)
        product == MulBytes(SignExtend(days_since_epoch, 12),
                            SignExtend(kNanosecondsPerDay, 12))
        sum == AddBytes(product, SignExtend(nanoseconds, 12))
    IN IF FitsInt64(product) /\ FitsInt64(sum)
       THEN { [ub |-> FALSE, val |-> Truncate(sum, 8)] }
       ELSE { [ub |-> TRUE, val |-> x] :
                x \in {Truncate(sum, 8), nanoseconds, I64(0)} }

Int64Max == [k \in 1..8 |-> IF k = 8 THEN 127 ELSE 255]
Int64Min == [k \in 1..8 |-> IF k = 8 THEN 128 ELSE 0]

\* The int64_t nanosecond values of the model.
NsValues ==
    UNION { { I64(n), NegBytes(I64(n)),
              AddBytes(kNanosecondsPerDay, I64(n)),
              SubBytes(kNanosecondsPerDay, I64(n)),
              SubBytes(Int64Max, I64(n)),
              AddBytes(Int64Min, I64(n)) } : n \in 0..NsSpread }

\* The values of value[2] of the model: around the Unix epoch day, and the
\* two ends of uint32_t.
JulianDays ==
    UNION { { U32(2440588 + d), U32(2440588 - d) } : d \in 0..DaySpread }
    \cup { U32(0), NotBytes(U32(0)) }

\* An Int96 as it may lie in memory before a call: any words.
StoredInt96 ==
    { lo \o day : lo \in { I64(0), NegBytes(I64(1)),
                           SubBytes(kNanosecondsPerDay, I64(1)) },
                  day \in JulianDays }

TInit ==
    /\ i96 \in StoredInt96
    /\ t_pc = "stored"
    /\ t_v = I64(0)
    /\ t_out = [ub |-> FALSE, val |-> I64(0)]

\* Int96SetNanoSeconds(i96, v)
CallInt96SetNanoSeconds ==
    /\ t_pc = "stored"
    /\ \E v \in NsValues :
         /\ i96' = Int96SetNanoSeconds(i96, v)
         /\ t_v' = v
    /\ t_pc' = "set"
    /\ UNCHANGED t_out
    /\ UNCHANGED <<kvars, cvars, wvars>>

\* Int96GetNanoSeconds(i96), on a stored value or after a set.
CallInt96GetNanoSeconds ==
    /\ t_pc \in {"stored", "set"}
    /\ t_out' \in Int96GetNanoSeconds(i96)
    /\ t_pc' = IF t_pc = "set" THEN "got" ELSE "read"
    /\ UNCHANGED <<i96, t_v>>
    /\ UNCHANGED <<kvars, cvars, wvars>>

TNext ==
    \/ CallInt96SetNanoSeconds
    \/ CallInt96GetNanoSeconds

InitInt96 == TInit /\ KIdle /\ CIdle /\ WIdle
NextInt96 == TNext
SpecInt96 == InitInt96 /\ [][NextInt96]_vars

\* C10 (as claimed): Int96GetNanoSeconds after Int96SetNanoSeconds(i, v)
\* returns exactly v, whatever the three words of i held before.
C10_Int96RoundTrip ==
    t_pc = "got" => t_out = [ub |-> FALSE, val |-> t_v]

----------------------------------------------------------------------------
\* WrapArraysLike and WrapDatumsLike called on their own

\* WrapArraysLike(value, arrays): the set of its possible outcomes.  The
\* ARRAY branch has no size check: arrays[0] of an empty vector is undefined
\* in every build.  Only the last branch has a DCHECK.
WrapArraysLike(value, arrays, dchecks) ==
    IF value.kind = "ARRAY" THEN
        IF Len(arrays) >= 1
        THEN { WrapOutcome("OK", ArrayDatum(arrays[1])) }
        ELSE { WrapOutcome("crash", NoneDatum) }
             \cup { WrapOutcome("OK", g) : g \in GarbageDatums }
    ELSE IF value.kind = "CHUNKED_ARRAY" THEN
        { WrapOutcome("OK", ChunkedDatum(arrays)) }
    ELSE
        IF dchecks
        THEN { WrapOutcome("abort", NoneDatum) }
        ELSE { WrapOutcome("OK", NoneDatum) }

\* The arrays a list can hold, told apart by their elements.
WrapArrays == { <<>>, <<1>>, <<2, 3>> }

WrapLists == UNION { [1..k -> WrapArrays] : k \in 0..MaxChunks }

\* The reference datums: a single array, a chunked array, another kind.
WrapReferences ==
    { ArrayDatum(<<7, 8>>), ChunkedDatum(<<<<7>>, <<8>>>>), NoneDatum }

WInit ==
    /\ w_value \in WrapReferences
    /\ w_list \in WrapLists
    /\ w_fn = "none"
    /\ w_dchecks = FALSE
    /\ w_ret = "none"
    /\ w_datum = NoneDatum

\* A call of WrapArraysLike(w_value, w_list), in a debug or a release build.
CallWrapArraysLike ==
    /\ w_fn = "none"
    /\ \E dchecks \in BOOLEAN :
         \E o \in WrapArraysLike(w_value, w_list, dchecks) :
            /\ w_dchecks' = dchecks
            /\ w_ret' = o.ret
            /\ w_datum' = o.datum
    /\ w_fn' = "WrapArraysLike"
    /\ UNCHANGED <<w_value, w_list>>
    /\ UNCHANGED <<kvars, cvars, tvars>>

\* A call of WrapDatumsLike(w_value, datums), the datums holding w_list.
CallWrapDatumsLike ==
    /\ w_fn = "none"
    /\ \E dchecks \in BOOLEAN :
         \E o \in WrapDatumsLike(w_value,
                     [k \in 1..Len(w_list) |-> ArrayDatum(w_list[k])], dchecks) :
            /\ w_dchecks' = dchecks
            /\ w_ret' = o.ret
            /\ w_datum' = o.datum
    /\ w_fn' = "WrapDatumsLike"
    /\ UNCHANGED <<w_value, w_list>>
    /\ UNCHANGED <<kvars, cvars, tvars>>

WNext ==
    \/ CallWrapArraysLike
    \/ CallWrapDatumsLike

InitWrap == WInit /\ KIdle /\ CIdle /\ TIdle
NextWrap == WNext
SpecWrap == InitWrap /\ [][NextWrap]_vars

\* C11 (as claimed): with a single-array reference both functions fail an
\* internal consistency check unless the list holds exactly one element,
\* which they then return; with a chunked reference both return a chunked
\* array of every list element in order.
C11_WrapChecksListSize ==
    w_fn # "none" =>
        /\ (w_value.kind = "ARRAY" /\ Len(w_list) # 1 => w_ret = "abort")
        /\ (w_value.kind = "ARRAY" /\ Len(w_list) = 1 =>
              w_ret = "OK" /\ w_datum = ArrayDatum(w_list[1]))
        /\ (w_value.kind = "CHUNKED_ARRAY" =>
              w_ret = "OK" /\ w_datum = ChunkedDatum(w_list))

----------------------------------------------------------------------------
\* The cursors of the binary walk

\* The lengths of the chunks a cursor has passed, plus its offset.
CursorPosition(arrays, chunk_idx, start_idx) ==
    SumSeq(SubSeq(Lengths(arrays), 1, chunk_idx)) + start_idx

\* The cursor of one side at the start of a loop iteration.
CursorValid(arrays, chunk_idx, start_idx) ==
    /\ 0 <= chunk_idx /\ chunk_idx < Len(arrays)
    /\ 0 <= start_idx /\ start_idx <= Length(arrays[chunk_idx + 1])
    /\ CursorPosition(arrays, chunk_idx, start_idx) = elements_compared

\* The loop body is about to run.
IterationStarts == pc = "loop" /\ LoopCondition(elements_compared, left_length)

\* An iteration makes progress.
IterationProgress ==
    IterationStarts /\ pc' = "loop" =>
        \/ elements_compared' > elements_compared
        \/ left_chunk_idx' > left_chunk_idx
        \/ right_chunk_idx' > right_chunk_idx

\* C12: at the start of every loop iteration both chunk indexes are valid,
\* each offset is at most its chunk's length and, on each side, the lengths
\* of the chunks passed plus the offset equal elements_compared; every
\* iteration increases elements_compared or advances a chunk index, and the
\* number of kernel calls never exceeds the total length plus the number of
\* chunks of the two sides.
C12_WalkCursors ==
    /\ [](IterationStarts =>
            /\ CursorValid(left_arrays, left_chunk_idx, left_start_idx)
            /\ CursorValid(right_arrays, right_chunk_idx, right_start_idx))
    /\ [](Len(calls) <= left_length + Len(left_arrays) + Len(right_arrays))
    /\ [][IterationProgress]_vars

\* An iteration starts after the walk has passed zero-length chunks on both
\* sides, with the right cursor inside a chunk.
C12_Witness ==
    /\ IterationStarts
    /\ ChunkLens(left) = <<2, 0, 1>>
    /\ ChunkLens(right) = <<0, 3>>
    /\ left_chunk_idx = 2 /\ left_start_idx = 0
    /\ right_chunk_idx = 1 /\ right_start_idx = 2
    /\ elements_compared = 2
    /\ Len(calls) = 3

====
